---- MODULE Spec2Model ----
(***************************************************************************)
(* Pong1H (src/pong.py): the GameContext state machine.                    *)
(*                                                                         *)
(* Numbers.  The program computes in floats; the model computes in exact   *)
(* fixed point:                                                            *)
(*   - positions are whole pixels;                                         *)
(*   - directions are counted in units of 1/DirScale (DirScale = 200, so   *)
(*     that the literal 0.005 of line 127 is exactly one unit per pixel);  *)
(*   - delta_time is counted in units of 1/DtScale second (the nominal     *)
(*     tick of line 91, 1/120 s).                                          *)
(* A tick is taken only for a delta_time whose products are whole pixels   *)
(* (Exact), so every step of the model is a step of the program computed   *)
(* without rounding.                                                       *)
(*                                                                         *)
(* Indices.  Python's paddles[0], paddles[1], score[0], score[1] are       *)
(* paddles[1], paddles[2], score[1], score[2] here (TLA+ sequences start   *)
(* at 1).                                                                  *)
(***************************************************************************)
EXTENDS Integers, Sequences, FiniteSets

VARIABLES running, score, ball, paddles, label_score, self_y, last, ticks,
          held, vec

vars == <<running, score, ball, paddles, label_score, self_y, last, ticks,
          held, vec>>

(* ---------------------------------------------------------------------- *)
(* Bounds of the model                                                    *)
(* ---------------------------------------------------------------------- *)

\* number of update() calls that run the physics in one behaviour
MaxTicks == 2

\* delta_time values a tick may get, in 1/DtScale s: 0.4 s and 0.9 s
DtSet == {48, 108}

\* values random.random() may return, in 1/DirScale, drawn for direction_x:
\* they give direction_x = -0.96, 0.04, 0.96
RandomX == {4, 104, 196}

\* values random.random() may return, in 1/DirScale, drawn for direction_y:
\* they give direction_y = -0.48, -0.16, 0, 0.48
RandomY == {4, 68, 100, 196}

\* number of keys the keyboard reports as held down at one time
MaxHeld == 2

\* largest absolute value of a vector component
MaxVec == 2

\* key symbols delivered by the window; OTHER stands for every unmapped key
Symbols == {"W", "S", "UP", "DOWN", "SPACE", "ESCAPE", "OTHER"}

(* ---------------------------------------------------------------------- *)
(* Program constants                                                      *)
(* ---------------------------------------------------------------------- *)

DirScale == 200
DtScale == 120
BoardWidth == 640
BoardHeight == 400
PaddleHeight == 40
PaddleSpeed == 200
BallHeight == 8
BallSpeed == 250
ZoneLeft == 18
ZoneRight == 614

None == "None"

(* ---------------------------------------------------------------------- *)
(* Essential math                                                         *)
(* ---------------------------------------------------------------------- *)

\* Vector.__new__
Vector(x, y) == <<x, y>>

\* Vector.__add__
Vector_add(self, other) == Vector(self[1] + other[1], self[2] + other[2])

\* mutant: the operands of the subtraction exchanged
Vector_sub_Swapped(self, other) == Vector(other[1] - self[1], other[2] - self[2])

\* Vector.__sub__
Vector_sub(self, other) == Vector(self[1] - other[1], self[2] - other[2])

(* ---------------------------------------------------------------------- *)
(* Entities                                                               *)
(* ---------------------------------------------------------------------- *)

\* Paddle.__init__: position, direction_y = 0
Paddle(position) ==
    [x |-> position[1], y |-> position[2], direction_y |-> 0]

\* mutant: up also moves the paddle
up_Jump(p) == [p EXCEPT !.direction_y = 1, !.y = @ + 1]

\* Paddle.up
up(p) == [p EXCEPT !.direction_y = 1]

\* mutant: down stops a paddle that is already going down
down_Toggle(p) == [p EXCEPT !.direction_y = IF @ = -1 THEN 0 ELSE -1]

\* Paddle.down
down(p) == [p EXCEPT !.direction_y = -1]

\* Paddle.halt
halt(p) == [p EXCEPT !.direction_y = 0]

\* Ball.__init__: r1 and r2 are the two values random.random() returns
Ball(position, r1, r2) ==
    [x |-> position[1], y |-> position[2],
     direction_x |-> ((0 - DirScale \div 2) + r1) * 2,
     direction_y |-> (0 - DirScale \div 2) + r2]

\* GameContext.set_score_label: the text '{} : {}'.format(a, b)
set_score_label(s) == <<s[1], " : ", s[2]>>

(* ---------------------------------------------------------------------- *)
(* Simulation step                                                        *)
(* ---------------------------------------------------------------------- *)

\* mutant: the paddle step subtracted instead of added
PaddleStep_Reversed(p, dt) == 0 - (p.direction_y * PaddleSpeed * dt) \div DtScale

\* paddle.direction_y * paddle.speed * delta_time, in pixels
PaddleStep(p, dt) == (p.direction_y * PaddleSpeed * dt) \div DtScale

\* mutant: the clamp without its lower bound
ClampPaddle_NoLower(y) ==
    IF y > BoardHeight - PaddleHeight THEN BoardHeight - PaddleHeight
    ELSE y

\* the clamp of move_paddles
ClampPaddle(y) ==
    IF y < 0 THEN 0
    ELSE IF y > BoardHeight - PaddleHeight THEN BoardHeight - PaddleHeight
    ELSE y

\* GameContext.move_paddles
move_paddles(ps, dt) ==
    [i \in DOMAIN ps |->
        [ps[i] EXCEPT !.y = ClampPaddle(ps[i].y + PaddleStep(ps[i], dt))]]

\* self.ball.speed * direction * delta_time, in pixels
BallStep(direction, dt) == (BallSpeed * direction * dt) \div (DirScale * DtScale)

\* candidate x of move_ball
CandX(b, dt) == b.x + BallStep(b.direction_x, dt)

\* candidate y of move_ball
CandY(b, dt) == b.y + BallStep(b.direction_y, dt)

\* the products of a tick with this delta_time are whole pixels
Exact(dt) ==
    /\ (BallSpeed * ball.direction_x * dt) % (DirScale * DtScale) = 0
    /\ (BallSpeed * ball.direction_y * dt) % (DirScale * DtScale) = 0
    /\ \A i \in DOMAIN paddles :
          (paddles[i].direction_y * PaddleSpeed * dt) % DtScale = 0

\* mutant: the wall step without the clamp at 0
WallY_NoClamp(y) == y

\* mutant: the wall step clamps the local y at the upper bound too
WallY_Clamped(y) ==
    IF y < 0 THEN 0
    ELSE IF y > BoardHeight - BallHeight THEN BoardHeight - BallHeight
    ELSE y

\* "Check collison with upper bounds": the local y after the wall step
WallY(y) == IF y < 0 THEN 0 ELSE y

\* "Check collison with upper bounds": the ball's direction_y after it
WallDirY(y, dy) ==
    IF y < 0 THEN 0 - dy
    ELSE IF y > BoardHeight - BallHeight THEN 0 - dy
    ELSE dy

\* "Check collison with upper bounds": the attribute y of the GameContext,
\* <<>> while the attribute is not set
WallSelfY(y, sy) ==
    IF y < 0 THEN sy
    ELSE IF y > BoardHeight - BallHeight THEN <<BoardHeight - BallHeight>>
    ELSE sy

\* mutant: the paddle check without its zones
InZone_Always(x) == TRUE

\* the contact zones of the paddle check
InZone(x) == x <= ZoneLeft \/ x >= ZoneRight

\* the span test of the paddle check
Covers(p, y) == y > p.y /\ y < p.y + PaddleHeight

\* mutant: the geometric centre of the paddle
PaddleCenter_True(p) == p.y + PaddleHeight \div 2

\* paddle_center of the paddle check
PaddleCenter(p) == p.y - PaddleHeight \div 2

\* mutant: the English with the difference reversed
English_Reversed(p, y) == (5 * DirScale * (y - PaddleCenter(p))) \div 1000

\* 0.005 * (paddle_center - y), in 1/DirScale
English(p, y) == (5 * DirScale * (PaddleCenter(p) - y)) \div 1000

\* the body of the paddle loop for one paddle
Deflect(b, p, y) ==
    IF Covers(p, y)
    THEN [b EXCEPT !.direction_x = 0 - @,
                   !.direction_y = @ + English(p, y)]
    ELSE b

\* "Check collision with paddles": the loop over self.paddles
RECURSIVE DeflectAll(_, _, _, _)
DeflectAll(b, ps, y, i) ==
    IF i > Len(ps) THEN b
    ELSE DeflectAll(Deflect(b, ps[i], y), ps, y, i + 1)

\* the ball after the wall step and the paddle check
Collide(b, ps, x, y) ==
    LET b1 == [b EXCEPT !.direction_y = WallDirY(y, @)]
    IN  IF InZone(x) THEN DeflectAll(b1, ps, WallY(y), 1) ELSE b1

\* mutant: toggle_pause always resumes
toggle_pause_On(r) == TRUE

\* GameContext.toggle_pause
toggle_pause(r) == ~r

\* the balls Ball((640 // 2, 400 // 2)) may construct
Spawn == {Ball(<<BoardWidth \div 2, BoardHeight \div 2>>, r1, r2) :
             r1 \in RandomX, r2 \in RandomY}

\* mutant: the point goes to the side the ball left on
ScoreLeftOut_Swapped(s) == <<s[1] + 1, s[2]>>

\* the score after the ball left on the left
ScoreLeftOut(s) == <<s[1], s[2] + 1>>

\* mutant: both sides get the point
ScoreRightOut_Both(s) == <<s[1] + 1, s[2] + 1>>

\* the score after the ball left on the right
ScoreRightOut(s) == <<s[1] + 1, s[2]>>

\* x < 0
OutLeft(x) == x < 0

\* x > 640 - 8
OutRight(x) == x > BoardWidth - 8

\* mutant: a ball that a paddle deflected is committed, out of bounds or not
move_ball_HitFirst(ps, dt) ==
    LET x  == CandX(ball, dt)
        y0 == CandY(ball, dt)
        y  == WallY(y0)
        b  == Collide(ball, ps, x, y0)
        hit == InZone(x) /\ \E i \in DOMAIN ps : Covers(ps[i], y)
    IN  /\ self_y' = WallSelfY(y0, self_y)
        /\ IF OutLeft(x) /\ ~hit
           THEN /\ ball' \in Spawn
                /\ score' = ScoreLeftOut(score)
                /\ label_score' = set_score_label(score')
                /\ running' = toggle_pause(running)
           ELSE IF OutRight(x) /\ ~hit
           THEN /\ ball' \in Spawn
                /\ score' = ScoreRightOut(score)
                /\ label_score' = set_score_label(score')
                /\ running' = toggle_pause(running)
           ELSE /\ ball' = [b EXCEPT !.x = x, !.y = y]
                /\ UNCHANGED <<score, label_score, running>>

\* GameContext.move_ball, with the paddles as move_paddles left them
move_ball(ps, dt) ==
    LET x  == CandX(ball, dt)
        y0 == CandY(ball, dt)
        y  == WallY(y0)
        b  == Collide(ball, ps, x, y0)
    IN  /\ self_y' = WallSelfY(y0, self_y)
        /\ IF OutLeft(x)
           THEN /\ ball' \in Spawn
                /\ score' = ScoreLeftOut(score)
                /\ label_score' = set_score_label(score')
                /\ running' = toggle_pause(running)
           ELSE IF OutRight(x)
           THEN /\ ball' \in Spawn
                /\ score' = ScoreRightOut(score)
                /\ label_score' = set_score_label(score')
                /\ running' = toggle_pause(running)
           ELSE /\ ball' = [b EXCEPT !.x = x, !.y = y]
                /\ UNCHANGED <<score, label_score, running>>

\* mutant: update without the test of self.running
update_Ungated(dt) ==
    /\ last' = [op |-> "update", arg |-> dt, ran |-> running,
                x |-> IF running THEN CandX(ball, dt) ELSE None,
                y |-> IF running THEN CandY(ball, dt) ELSE None]
    /\ ticks < MaxTicks
    /\ Exact(dt)
    /\ ticks' = ticks + 1
    /\ paddles' = move_paddles(paddles, dt)
    /\ move_ball(paddles', dt)

\* GameContext.update
update(dt) ==
    /\ last' = [op |-> "update", arg |-> dt, ran |-> running,
                x |-> IF running THEN CandX(ball, dt) ELSE None,
                y |-> IF running THEN CandY(ball, dt) ELSE None]
    /\ IF running
       THEN /\ ticks < MaxTicks
            /\ Exact(dt)
            /\ ticks' = ticks + 1
            /\ paddles' = move_paddles(paddles, dt)
            /\ move_ball(paddles', dt)
       ELSE UNCHANGED <<running, score, ball, paddles, label_score, self_y, ticks>>

\* mutant: reset starts the game
reset_Running ==
    /\ score' = <<0, 0>>
    /\ ball' \in Spawn
    /\ paddles' = <<Paddle(<<10, 120>>), Paddle(<<622, 120>>)>>
    /\ running' = TRUE
    /\ label_score' = set_score_label(score')

\* mutant: reset keeps the paddles
reset_KeepPaddles ==
    /\ score' = <<0, 0>>
    /\ ball' \in Spawn
    /\ paddles' = paddles
    /\ running' = FALSE
    /\ label_score' = set_score_label(score')

\* GameContext.reset
reset ==
    /\ score' = <<0, 0>>
    /\ ball' \in Spawn
    /\ paddles' = <<Paddle(<<10, 120>>), Paddle(<<622, 120>>)>>
    /\ running' = FALSE
    /\ label_score' = set_score_label(score')

\* GameContext.on_key_press
on_key_press(symbol) ==
    /\ last' = [op |-> "press", arg |-> symbol, ran |-> FALSE,
                x |-> None, y |-> None]
    /\ paddles' =
         IF symbol = "W" THEN [paddles EXCEPT ![1] = up(@)]
         ELSE IF symbol = "S" THEN [paddles EXCEPT ![1] = down(@)]
         ELSE IF symbol = "UP" THEN [paddles EXCEPT ![2] = up(@)]
         ELSE IF symbol = "DOWN" THEN [paddles EXCEPT ![2] = down(@)]
         ELSE paddles
    /\ UNCHANGED <<running, score, ball, label_score, self_y, ticks>>

\* GameContext.on_key_release
on_key_release(symbol) ==
    /\ last' = [op |-> "release", arg |-> symbol, ran |-> FALSE,
                x |-> None, y |-> None]
    /\ IF symbol \in {"W", "S"}
       THEN /\ paddles' = [paddles EXCEPT ![1] = halt(@)]
            /\ UNCHANGED <<running, score, ball, label_score>>
       ELSE IF symbol \in {"UP", "DOWN"}
       THEN /\ paddles' = [paddles EXCEPT ![2] = halt(@)]
            /\ UNCHANGED <<running, score, ball, label_score>>
       ELSE IF symbol = "SPACE"
       THEN /\ running' = toggle_pause(running)
            /\ UNCHANGED <<score, ball, paddles, label_score>>
       ELSE IF symbol = "ESCAPE"
       THEN reset
       ELSE UNCHANGED <<running, score, ball, paddles, label_score>>
    /\ UNCHANGED <<self_y, ticks>>

(* ---------------------------------------------------------------------- *)
(* Specification                                                          *)
(* ---------------------------------------------------------------------- *)

\* GameContext.__init__: the fields, then reset()
GameInit ==
    /\ running = FALSE
    /\ score = <<0, 0>>
    /\ ball \in Spawn
    /\ paddles = <<Paddle(<<10, 120>>), Paddle(<<622, 120>>)>>
    /\ label_score = set_score_label(score)
    /\ self_y = <<>>
    /\ last = [op |-> "init", arg |-> None, ran |-> FALSE,
               x |-> None, y |-> None]
    /\ ticks = 0

\* the window is created with no key down
Init ==
    /\ GameInit
    /\ held = {}
    /\ vec = [pc |-> "off"]

\* Spec delivers key events in any order and does not follow the keyboard
\* (held) nor evaluate vectors (vec)
Tick == (\E dt \in DtSet : update(dt)) /\ UNCHANGED <<held, vec>>

KeyPress ==
    (\E symbol \in Symbols : on_key_press(symbol)) /\ UNCHANGED <<held, vec>>

KeyRelease ==
    (\E symbol \in Symbols : on_key_release(symbol)) /\ UNCHANGED <<held, vec>>

Next == Tick \/ KeyPress \/ KeyRelease

Spec == Init /\ [][Next]_vars

(* ---------------------------------------------------------------------- *)
(* Specification of the keyboard: a key is pressed while it is up and      *)
(* released while it is down (held is the set of keys that are down)       *)
(* ---------------------------------------------------------------------- *)

HeldPress ==
    \E symbol \in Symbols \ held :
       /\ Cardinality(held) < MaxHeld
       /\ on_key_press(symbol)
       /\ held' = held \cup {symbol}
       /\ UNCHANGED vec

HeldRelease ==
    \E symbol \in held :
       /\ on_key_release(symbol)
       /\ held' = held \ {symbol}
       /\ UNCHANGED vec

NextKeys == HeldPress \/ HeldRelease

SpecKeys == Init /\ [][NextKeys]_vars

(* ---------------------------------------------------------------------- *)
(* Specification of the vector arithmetic: v + (w - v) on integer vectors  *)
(* ---------------------------------------------------------------------- *)

VecSet == {Vector(x, y) : x \in (0 - MaxVec) .. MaxVec, y \in (0 - MaxVec) .. MaxVec}

InitVector ==
    /\ GameInit
    /\ held = {}
    /\ \E v \in VecSet, w \in VecSet :
          vec = [pc |-> "sub", v |-> v, w |-> w, v0 |-> v, w0 |-> w,
                 d |-> <<>>, r |-> <<>>]

\* d = w - v
VecSub ==
    /\ vec.pc = "sub"
    /\ vec' = [vec EXCEPT !.d = Vector_sub(vec.w, vec.v), !.pc = "add"]
    /\ UNCHANGED <<running, score, ball, paddles, label_score, self_y, last,
                   ticks, held>>

\* r = v + d
VecAdd ==
    /\ vec.pc = "add"
    /\ vec' = [vec EXCEPT !.r = Vector_add(vec.v, vec.d), !.pc = "done"]
    /\ UNCHANGED <<running, score, ball, paddles, label_score, self_y, last,
                   ticks, held>>

NextVector == VecSub \/ VecAdd

SpecVector == InitVector /\ [][NextVector]_vars

(* ---------------------------------------------------------------------- *)
(* Claims                                                                 *)
(* ---------------------------------------------------------------------- *)

\* the step is an update(delta_time) call made while running
RunningTick == last'.op = "update" /\ running

\* the candidate x of that call: x + speed * direction_x * dt
TickX == ball.x + (250 * ball.direction_x * last'.arg) \div (200 * 120)

\* the candidate y of that call: y + speed * direction_y * dt
TickY == ball.y + (250 * ball.direction_y * last'.arg) \div (200 * 120)

\* C1: a running tick whose candidate x is < 0 raises the right score by
\* one, leaves the left score, puts the ball at (320, 200) and stops the
\* game; a candidate x > 632 does the same for the left score.
C1_ScoringRule ==
    [][RunningTick =>
         /\ TickX < 0 =>
               /\ score'[2] = score[2] + 1
               /\ score'[1] = score[1]
               /\ ball'.x = 320 /\ ball'.y = 200
               /\ running' = FALSE
         /\ TickX > 632 =>
               /\ score'[1] = score[1] + 1
               /\ score'[2] = score[2]
               /\ ball'.x = 320 /\ ball'.y = 200
               /\ running' = FALSE]_vars

\* C1 witness: a running tick took the ball out on the left and the right
\* player has its point
C1_Witness ==
    /\ last.op = "update" /\ last.ran
    /\ last.x < 0
    /\ score[2] >= 1
    /\ ~running

\* C2: every score event leaves the game paused, and running turns from
\* false to true only in the release of SPACE.
C2_ResumeOnlyByToggle ==
    [][/\ (last'.op = "update" /\ score' # score) => ~running'
       /\ (~running /\ running') =>
              (last'.op = "release" /\ last'.arg = "SPACE")]_vars

\* C2 witness: after a point was scored, the release of SPACE has set the
\* game running again
C2_Witness ==
    /\ last.op = "release" /\ last.arg = "SPACE"
    /\ running
    /\ score # <<0, 0>>

\* C3: an update call made while the game is paused changes neither the
\* paddles nor the ball nor the score.
C3_PauseGating ==
    [][(last'.op = "update" /\ ~running) =>
          /\ paddles' = paddles
          /\ ball' = ball
          /\ score' = score
          /\ ~running']_vars

\* C3 witness: update was called while paused, with a paddle that has a
\* direction to move in and a ball that has moved before
C3_Witness ==
    /\ last.op = "update" /\ ~last.ran
    /\ paddles[1].direction_y # 0
    /\ ticks > 0
    /\ ball.x # 320

\* C4: the release of ESCAPE (reset) leaves the score (0, 0), the paddles at
\* (10, 120) and (622, 120), a new ball at (320, 200) and the game paused.
C4_Reset ==
    [][(last'.op = "release" /\ last'.arg = "ESCAPE") =>
          /\ score' = <<0, 0>>
          /\ paddles'[1].x = 10 /\ paddles'[1].y = 120
          /\ paddles'[2].x = 622 /\ paddles'[2].y = 120
          /\ Len(paddles') = 2
          /\ ball'.x = 320 /\ ball'.y = 200
          /\ ball'.direction_x \in -200 .. 199
          /\ ball'.direction_y \in -100 .. 99
          /\ running' = FALSE]_vars

\* C4 witness: reset has acted in a game that had run its ticks
C4_Witness ==
    /\ last.op = "release" /\ last.arg = "ESCAPE"
    /\ ticks = MaxTicks
    /\ self_y = <<392>>

\* C5: in every reachable state each paddle's y is within 0 .. 360.
C5_PaddleClamped ==
    \A i \in DOMAIN paddles : 0 <= paddles[i].y /\ paddles[i].y <= 400 - 40

\* C5 witness: a running tick has moved a paddle against the lower bound
\* (no sum of steps from 120 gives 0: the clamp has acted)
C5_Witness ==
    /\ last.op = "update" /\ last.ran
    /\ paddles[1].y = 0
    /\ paddles[1].direction_y = -1

\* C6: in every reachable state the ball's 8x8 box and both paddles' 8x40
\* boxes lie inside the 640x400 playfield.
C6_Containment ==
    /\ 0 <= ball.x /\ ball.x <= 632
    /\ 0 <= ball.y /\ ball.y <= 392
    /\ \A i \in DOMAIN paddles :
          /\ 0 <= paddles[i].x /\ paddles[i].x <= 632
          /\ 0 <= paddles[i].y /\ paddles[i].y <= 360

\* C7: the release of SPACE (toggle_pause) negates running and leaves the
\* score, the ball and the paddles; toggling the state it leaves gives the
\* running flag it started from.
C7_TogglePause ==
    [][(last'.op = "release" /\ last'.arg = "SPACE") =>
          /\ running' = ~running
          /\ score' = score /\ ball' = ball /\ paddles' = paddles
          /\ toggle_pause(running') = running]_vars

\* C7 witness: SPACE has paused a rally in flight
C7_Witness ==
    /\ last.op = "release" /\ last.arg = "SPACE"
    /\ ~running
    /\ ticks > 0
    /\ ball.x # 320

\* clamp(y, 0, 400 - height)
ClaimClamp(y) == IF y < 0 THEN 0 ELSE IF y > 360 THEN 360 ELSE y

\* C8: a running tick leaves each paddle at x and at
\* clamp(y + direction_y * 200 * dt, 0, 360); y = 0, Up, dt = 0.1 gives 20
\* and y = 390, Up, dt = 0.1 gives 360.
C8_PaddleMovement ==
    [][/\ RunningTick =>
            \A i \in 1 .. 2 :
               /\ paddles'[i].x = paddles[i].x
               /\ paddles'[i].y =
                    ClaimClamp(paddles[i].y
                       + (paddles[i].direction_y * 200 * last'.arg) \div 120)
       /\ move_paddles(<<up(Paddle(<<10, 0>>))>>, 12)[1].y = 20
       /\ move_paddles(<<up(Paddle(<<10, 390>>))>>, 12)[1].y = 360]_vars

\* C8 witness: a running tick has moved the left paddle up by 0.4 s * 200
\* without reaching a bound
C8_Witness ==
    /\ last.op = "update" /\ last.ran /\ last.arg = 48
    /\ paddles[1].direction_y = 1
    /\ paddles[1].y = 200

\* 0.005 * ((p.y - height / 2) - y) if the span of p strictly contains y
ClaimEnglishOf(p, y) ==
    IF p.y < y /\ y < p.y + 40 THEN (p.y - 20) - y ELSE 0

\* the sum of the English of the paddles when x is in a contact zone
ClaimEnglish(ps, x, y) ==
    IF x <= 18 \/ x >= 614
    THEN ClaimEnglishOf(ps[1], y) + ClaimEnglishOf(ps[2], y)
    ELSE 0

\* the number of paddles whose span strictly contains y when x is in a zone
ClaimHits(ps, x, y) ==
    IF x <= 18 \/ x >= 614
    THEN Cardinality({i \in 1 .. 2 : ps[i].y < y /\ y < ps[i].y + 40})
    ELSE 0

\* the step is a running tick that commits the candidate position
CommitTick == RunningTick /\ 0 <= TickX /\ TickX <= 632

\* C9: in a running tick that does not score, a candidate y < 0 commits
\* y = 0 and inverts direction_y; a candidate y > 392 inverts direction_y and
\* commits the candidate as it is; a candidate y in 0 .. 392 is committed and
\* the wall step leaves direction_y (what the paddles add is set apart).
C9_WallBounce ==
    [][CommitTick =>
         /\ TickY < 0 =>
              /\ ball'.y = 0
              /\ ball'.direction_y - ClaimEnglish(paddles', TickX, 0)
                    = 0 - ball.direction_y
         /\ TickY > 392 =>
              /\ ball'.y = TickY
              /\ ball'.direction_y - ClaimEnglish(paddles', TickX, TickY)
                    = 0 - ball.direction_y
         /\ (0 <= TickY /\ TickY <= 392) =>
              /\ ball'.y = TickY
              /\ ball'.direction_y - ClaimEnglish(paddles', TickX, TickY)
                    = ball.direction_y]_vars

\* C9 witness: a running tick has committed a candidate y above 392
C9_Witness ==
    /\ last.op = "update" /\ last.ran
    /\ 0 <= last.x /\ last.x <= 632
    /\ last.y > 392
    /\ ball.y = last.y

\* the local y of move_ball after the wall step
ClaimWallY == IF TickY < 0 THEN 0 ELSE TickY

\* C10: in a running tick that commits a candidate x in a contact zone,
\* every paddle whose open span contains the candidate y inverts direction_x
\* once and adds 0.005 * ((paddle.y - 20) - y) to direction_y; the other
\* paddles do nothing.
C10_PaddleHit ==
    [][(CommitTick /\ (TickX <= 18 \/ TickX >= 614)) =>
         /\ ball'.direction_x =
              IF ClaimHits(paddles', TickX, ClaimWallY) = 1
              THEN 0 - ball.direction_x ELSE ball.direction_x
         /\ ball'.direction_y =
              (IF TickY < 0 \/ TickY > 392
               THEN 0 - ball.direction_y ELSE ball.direction_y)
              + ClaimEnglish(paddles', TickX, ClaimWallY)]_vars

\* C10 witness: a running tick has committed a candidate in the left zone
\* that the left paddle covers and the right paddle does not
C10_Witness ==
    /\ last.op = "update" /\ last.ran
    /\ 0 <= last.x /\ last.x <= 18
    /\ paddles[1].y < last.y /\ last.y < paddles[1].y + 40
    /\ ~(paddles[2].y < last.y /\ last.y < paddles[2].y + 40)
    /\ ball.direction_x > 0

\* C11: a running tick whose candidate x is strictly between 18 and 614
\* leaves direction_x, and changes direction_y only by the inversion of a
\* wall bounce, wherever the paddles are.
C11_ZoneGating ==
    [][(RunningTick /\ 18 < TickX /\ TickX < 614) =>
          /\ ball'.direction_x = ball.direction_x
          /\ ball'.direction_y =
               IF TickY < 0 \/ TickY > 392
               THEN 0 - ball.direction_y ELSE ball.direction_y]_vars

\* C11 witness: a running tick had its candidate between the zones and
\* inside the span of the left paddle
C11_Witness ==
    /\ last.op = "update" /\ last.ran
    /\ 18 < last.x /\ last.x < 614
    /\ paddles[1].y < last.y /\ last.y < paddles[1].y + 40

\* the key events of the paddles
ClaimPaddleKeys == {"W", "S", "UP", "DOWN"}

\* the paddle a key is mapped to
ClaimPaddleOf(symbol) == IF symbol \in {"W", "S"} THEN 1 ELSE 2

\* C12: a press or release of W, S, UP or DOWN changes at most the
\* direction_y of the paddle the key is mapped to: both positions, the other
\* paddle's direction, the ball, the score and running stay, paused or not.
C12_KeysChangeDirectionOnly ==
    [][(last'.op \in {"press", "release"} /\ last'.arg \in ClaimPaddleKeys) =>
          /\ \A i \in 1 .. 2 :
                /\ paddles'[i].x = paddles[i].x
                /\ paddles'[i].y = paddles[i].y
                /\ i # ClaimPaddleOf(last'.arg) =>
                      paddles'[i].direction_y = paddles[i].direction_y
          /\ ball' = ball
          /\ score' = score
          /\ running' = running]_vars

\* C12 witness: W was pressed in a running game whose paddles have moved
C12_Witness ==
    /\ last.op = "press" /\ last.arg = "W"
    /\ running
    /\ paddles[1].direction_y = 1
    /\ paddles[1].y # 120 /\ paddles[2].y # 120

\* the direction a key event asks for
ClaimDirection(op, symbol) ==
    IF op = "release" THEN 0
    ELSE IF symbol \in {"W", "UP"} THEN 1 ELSE -1

\* the call a key event makes, made on p
ClaimCall(op, symbol, p) ==
    IF op = "release" THEN halt(p)
    ELSE IF symbol \in {"W", "UP"} THEN up(p) ELSE down(p)

\* C13: after a key event of a paddle its direction_y is the one of that
\* event's call, whatever it was before, and making the same call again
\* changes nothing.
C13_LastCallWins ==
    [][(last'.op \in {"press", "release"} /\ last'.arg \in ClaimPaddleKeys) =>
          LET p == paddles'[ClaimPaddleOf(last'.arg)]
          IN  /\ p.direction_y = ClaimDirection(last'.op, last'.arg)
              /\ ClaimCall(last'.op, last'.arg, p) = p]_vars

\* C13 witness: S was pressed last for the left paddle, which goes down,
\* after calls that left the right paddle going up
C13_Witness ==
    /\ last.op = "press" /\ last.arg = "S"
    /\ paddles[1].direction_y = -1
    /\ paddles[2].direction_y = 1

\* C14: for all integer vectors v and w, v + (w - v) is w, and v and w are
\* after the two operations what they were before.
C14_VectorRoundTrip ==
    /\ vec.pc = "done" => vec.r = vec.w0
    /\ vec.pc \in {"add", "done"} => (vec.v = vec.v0 /\ vec.w = vec.w0)

\* C14 witness: v + (w - v) has been evaluated for two vectors that differ in
\* both components
C14_Witness ==
    /\ vec.pc = "done"
    /\ vec.v0 = <<2, -1>>
    /\ vec.w0 = <<-2, 1>>
    /\ vec.d = <<-4, 2>>

\* C17: whenever exactly one of a paddle's two keys is down, the paddle's
\* direction_y is the direction of that key.
C17_HeldKeyConsistency ==
    /\ ("W" \in held /\ "S" \notin held) => paddles[1].direction_y = 1
    /\ ("S" \in held /\ "W" \notin held) => paddles[1].direction_y = -1
    /\ ("UP" \in held /\ "DOWN" \notin held) => paddles[2].direction_y = 1
    /\ ("DOWN" \in held /\ "UP" \notin held) => paddles[2].direction_y = -1

\* C15: a running tick whose candidate x is < 0 or > 632 scores, puts a new
\* ball at exactly (320, 200) and pauses, also when a paddle's span strictly
\* contains the candidate y; the new ball has a newly drawn direction, not
\* the deflected one.
C15_ScoringBeforeDeflection ==
    [][(RunningTick /\ (TickX < 0 \/ TickX > 632)
          /\ ClaimHits(paddles', TickX, ClaimWallY) >= 1) =>
          /\ score'[1] + score'[2] = score[1] + score[2] + 1
          /\ ball'.x = 320 /\ ball'.y = 200
          /\ ball'.direction_x \in -200 .. 199
          /\ ball'.direction_y \in -100 .. 99
          /\ running' = FALSE]_vars

\* C15 witness: a running tick took the ball out on the left through the
\* span of the left paddle, and the game is paused with the ball at the
\* centre
C15_Witness ==
    /\ last.op = "update" /\ last.ran
    /\ last.x < 0
    /\ paddles[1].y < last.y /\ last.y < paddles[1].y + 40
    /\ ball.x = 320 /\ ball.y = 200
    /\ ~running

\* C16: a running tick that commits a candidate in the left zone (0 .. 18)
\* inside the left paddle's span negates direction_x, wherever the right
\* paddle is; the same for the right zone (614 .. 632) and the right paddle.
C16_DefendedGoal ==
    [][CommitTick =>
         /\ (TickX <= 18 /\ paddles'[1].y < ClaimWallY
               /\ ClaimWallY < paddles'[1].y + 40) =>
                 ball'.direction_x = 0 - ball.direction_x
         /\ (TickX >= 614 /\ paddles'[2].y < ClaimWallY
               /\ ClaimWallY < paddles'[2].y + 40) =>
                 ball'.direction_x = 0 - ball.direction_x]_vars

\* C18: but for a reset no step lowers a score component; a tick raises the
\* sum of the two by at most 1; the score changes only in a reset or in a
\* tick that leaves the ball at (320, 200) and the game paused.
C18_ScoreMonotonic ==
    [][/\ ~(last'.op = "release" /\ last'.arg = "ESCAPE") =>
             /\ score'[1] >= score[1]
             /\ score'[2] >= score[2]
       /\ last'.op = "update" =>
             score'[1] + score'[2] <= score[1] + score[2] + 1
       /\ score' # score =>
             \/ last'.op = "release" /\ last'.arg = "ESCAPE"
             \/ /\ last'.op = "update"
                /\ ball'.x = 320 /\ ball'.y = 200
                /\ ~running']_vars

\* C18 witness: a tick has given the left player a point, and a key event
\* after it has left the score
C18_Witness ==
    /\ score = <<1, 0>>
    /\ last.op = "press"
    /\ ~running

\* C19: in every reachable state the ball is at 0 <= x <= 632 and y >= 0.
C19_BallBounds ==
    /\ 0 <= ball.x /\ ball.x <= 632
    /\ ball.y >= 0

\* C19 witness: a running tick with a candidate y below 0 has committed the
\* ball at y = 0
C19_Witness ==
    /\ last.op = "update" /\ last.ran
    /\ 0 <= last.x /\ last.x <= 632
    /\ last.y < 0
    /\ ball.y = 0

\* C20: in a running tick that commits the ball, the paddles that cover the
\* candidate add to direction_y an amount strictly between -0.3 and -0.1
\* each (-60 and -20 in 1/200), wherever in the span the ball is; so does a
\* paddle at y = 100 hit in its geometric centre, y = 120.
C20_EnglishDownward ==
    [][/\ (CommitTick /\ ClaimHits(paddles', TickX, ClaimWallY) >= 1) =>
          LET n == ClaimHits(paddles', TickX, ClaimWallY)
              delta == ball'.direction_y
                         - (IF TickY < 0 \/ TickY > 392
                            THEN 0 - ball.direction_y ELSE ball.direction_y)
          IN  /\ (0 - 60) * n < delta
              /\ delta < (0 - 20) * n
       /\ Covers(Paddle(<<10, 100>>), 120)
       /\ (0 - 60) < English(Paddle(<<10, 100>>), 120)
       /\ English(Paddle(<<10, 100>>), 120) < (0 - 20)]_vars

\* C20 witness: a running tick has committed a ball that one paddle covered,
\* and the ball goes down
C20_Witness ==
    /\ last.op = "update" /\ last.ran
    /\ 614 <= last.x /\ last.x <= 632
    /\ paddles[2].y < last.y /\ last.y < paddles[2].y + 40
    /\ ~(paddles[1].y < last.y /\ last.y < paddles[1].y + 40)
    /\ ball.direction_y < 0

====
